---- MODULE Spec2Model ----
(***************************************************************************)
(* Model of dags/financial_pipeline.py: the Airflow DAG                    *)
(* financial_volatility_pipeline, its nine tasks chained linearly, the     *)
(* XCom values they exchange and the warehouse relations they write        *)
(* (staging, dim_instrumento, dim_tempo, fact_movimentacao_diaria and the  *)
(* materialized view volatility_weekly).                                   *)
(*                                                                         *)
(* Representation.                                                         *)
(*  - A relation without a key is a bag (multiset) of rows; a CSV file is  *)
(*    the bag of its data rows.  Only the columns the SQL computes with    *)
(*    are kept (date, symbol, close); open, high, low and volume are       *)
(*    copied through unchanged by every statement and are left out.        *)
(*  - NUMERIC values are exact fractions <<n, d>> in lowest terms with     *)
(*    d > 0; SQL NULL of a numeric column is <<0, 0>>.  The files of the   *)
(*    model use closes whose quotients have a finite decimal expansion,    *)
(*    for which PostgreSQL's NUMERIC division is exact.                    *)
(*  - A DATE is the number of days since Monday 2024-01-01, within         *)
(*    January 2024; NULL of a date column is NullDate.                     *)
(*  - STDDEV_SAMP is kept as the fraction under the square root; the       *)
(*    reporter takes the root to five decimal places, with the side on     *)
(*    which the exact value lies.                                          *)
(*  - DAG runs can be active together: the DAG sets no max_active_runs.    *)
(*    The engine's variables are functions of the DAG run.                 *)
(*  - One task attempt is one action: PostgresOperator runs its script in  *)
(*    one transaction (autocommit off) and _load_staging runs inside       *)
(*    "with hook.get_conn() as conn", so an attempt commits all of its     *)
(*    statements or none; only sequence values survive a rollback.  A      *)
(*    connection lost while the COMMIT is under way leaves the attempt     *)
(*    failed with either outcome on the server.                            *)
(***************************************************************************)
EXTENDS Bags, FiniteSets, Integers, Sequences, TLC

VARIABLES file, run, dag_state, state, try_number, error, elapsed,
          faults, incidents, stale, xcom, log, tables, staging,
          dim_instrumento,
          dim_tempo, fact_movimentacao_diaria, fact_id_seq,
          volatility_weekly, pre, prev

engine == <<run, dag_state, state, try_number, error, elapsed, faults,
            incidents, stale>>
warehouse == <<tables, staging, dim_instrumento, dim_tempo,
               fact_movimentacao_diaria, fact_id_seq, volatility_weekly>>
vars == <<file, engine, xcom, log, warehouse, pre, prev>>

(***************************************************************************)
(* Bounds of the model.                                                    *)
(***************************************************************************)
\* number of DAG runs created
MaxRuns == 2
\* number of DAG runs that are active together
MaxActiveRuns == 2
\* number of incidents in a behaviour.  An incident is a DAG run created
\* on a file that is not one of the regular deliveries (or on no file), an
\* outage of the warehouse connection, which hits the attempts of one task
\* instance, or a collision of the CREATE statements of two runs.
MaxIncidents == 1
\* number of attempts of the task instance that an outage ends
MaxFaults == 4
\* largest number of rows, short of all its rows, that an INSERT ended by a
\* fault has inserted
MaxInsertedBeforeFault == 2

(***************************************************************************)
(* Program constants.                                                      *)
(***************************************************************************)
\* default_args['retries']
retries == 3
\* default_args['retry_delay'], in minutes
retry_delay == 5
\* COUNT(*) = 750000 in run_data_quality_checks
ExpectedCount == 750000

csv_path == "/opt/airflow/data/financial_market_750k.csv"
NoDataMessage == "Nenhum dado de volatilidade disponível."

(***************************************************************************)
(* NUMERIC arithmetic with NULL.                                           *)
(***************************************************************************)
Abs(x) == IF x < 0 THEN -x ELSE x

RECURSIVE GCD(_, _)
GCD(a, b) == IF b = 0 THEN a ELSE GCD(b, a % b)

NullNum == <<0, 0>>
IsNull(q) == q[2] = 0
Frac(n, d) ==
  IF d = 0 THEN NullNum
  ELSE LET g == GCD(Abs(n), Abs(d))
           s == IF d < 0 THEN -1 ELSE 1
       IN  <<(s * n) \div g, (s * d) \div g>>
Num(n) == <<n, 1>>

NumAdd(a, b) == IF IsNull(a) \/ IsNull(b) THEN NullNum
                ELSE Frac(a[1] * b[2] + b[1] * a[2], a[2] * b[2])
NumSub(a, b) == IF IsNull(a) \/ IsNull(b) THEN NullNum
                ELSE Frac(a[1] * b[2] - b[1] * a[2], a[2] * b[2])
NumMul(a, b) == IF IsNull(a) \/ IsNull(b) THEN NullNum
                ELSE Frac(a[1] * b[1], a[2] * b[2])
\* a / b; the divisor of the script is never zero (NULLIF), a zero divisor
\* would raise division_by_zero.  PostgreSQL rounds a NUMERIC quotient to
\* its result scale (at least 16 significant digits: 3 / 9 is
\* 0.33333333333333333333); the quotient is the exact fraction when its
\* decimal expansion ends within that scale, which is so for every division
\* the files of the model lead to (QuotientsAreExact).
NumDiv(a, b) == IF IsNull(a) \/ IsNull(b) THEN NullNum
                ELSE Frac(a[1] * b[2], a[2] * b[1])
\* NULLIF(a, b)
NullIf(a, b) == IF ~IsNull(a) /\ a = b THEN NullNum ELSE a

(***************************************************************************)
(* Dates.                                                                  *)
(***************************************************************************)
NullDate == -1
\* EXTRACT(YEAR FROM date), EXTRACT(MONTH FROM date)
ExtractYear(d) == IF d = NullDate THEN NullDate ELSE 2024
ExtractMonth(d) == IF d = NullDate THEN NullDate ELSE 1
\* EXTRACT(DOW FROM date): Sunday is 0; day 0 is a Monday
ExtractDow(d) == IF d = NullDate THEN NullDate ELSE (d + 1) % 7
\* DATE_TRUNC('week', date): the Monday of the ISO week
DateTruncWeek(d) == IF d = NullDate THEN NullDate ELSE d - (d % 7)

NullSym == "<null>"

(***************************************************************************)
(* Rows, bags of rows and the CSV files the runs find.                     *)
(***************************************************************************)
Row(d, s, c) == [date |-> d, symbol |-> s, close |-> c]

\* the bag holding n copies of x
Copies(x, n) == [y \in (IF n > 0 THEN {x} ELSE {}) |-> n]
\* the rows of bag B that are in the set R, with their multiplicities
Where(B, R) == [r \in R \cap BagToSet(B) |-> B[r]]

\* The bulk of a file: n observations of one instrument that repeat one
\* quote (the model cannot hold 750000 different rows; a bag holds them as
\* one row with its multiplicity).
Bulk(n) == Copies(Row(0, "PAD", Num(5)), n)

\* closes 10, 12, 9 on three consecutive dates
FileA == SetToBag({Row(1, "A", Num(10)), Row(2, "A", Num(12)),
                   Row(3, "A", Num(9))}) (+) Bulk(ExpectedCount - 3)
\* two instruments, a zero close, two weeks, dates overlapping FileA
FileAB == SetToBag({Row(1, "A", Num(10)), Row(2, "A", Num(8)),
                    Row(2, "B", Num(0)), Row(3, "B", Num(5)),
                    Row(8, "B", Num(10)), Row(9, "B", Num(8))})
          (+) Bulk(ExpectedCount - 6)
\* two rows of one instrument on the same date
FileDup == SetToBag({Row(1, "A", Num(10)), Row(1, "A", Num(8)),
                     Row(2, "A", Num(10))}) (+) Bulk(ExpectedCount - 3)
\* two rows of one instrument on its latest date
FileDupLater == SetToBag({Row(1, "A", Num(10)), Row(2, "A", Num(12)),
                          Row(2, "A", Num(15))}) (+) Bulk(ExpectedCount - 3)
\* one row short of the expected count
FileShort == SetToBag({Row(1, "A", Num(10)), Row(2, "A", Num(12)),
                       Row(3, "A", Num(9))}) (+) Bulk(ExpectedCount - 4)
\* an empty close field, an empty date field
FileNullClose == SetToBag({Row(1, "A", Num(10)), Row(2, "A", NullNum)})
                 (+) Bulk(ExpectedCount - 2)
FileNullDate == SetToBag({Row(1, "A", Num(10)), Row(NullDate, "A", Num(8))})
                (+) Bulk(ExpectedCount - 2)
\* every close is zero: no row has a daily variation
FileZero == Copies(Row(0, "PAD", Num(0)), ExpectedCount)

Files == {FileA, FileAB, FileDup, FileDupLater, FileShort, FileNullClose,
          FileNullDate, FileZero}
\* what os.path.exists and open find at csv_path during a run
NoFile == [exists |-> FALSE, rows |-> EmptyBag]
FileStates == {[exists |-> TRUE, rows |-> f] : f \in Files} \cup {NoFile}
\* the regular deliveries: files that pass the quality check, with one row
\* for an instrument and a date
RegularFiles == {[exists |-> TRUE, rows |-> f] : f \in {FileA, FileAB}}

(***************************************************************************)
(* run_data_quality_checks: the SQL of the SQLCheckOperator.               *)
(***************************************************************************)
CriticalNull(r) == IsNull(r.close) \/ r.date = NullDate
\* QualityCheck without the test of the critical columns
QualityCheckCountOnly(S) == BagCardinality(S) = ExpectedCount
\* COUNT(*) = 750000 AND SUM(CASE WHEN close IS NULL OR date IS NULL ...) = 0;
\* over an empty table SUM is NULL and the conjunction is false
QualityCheck(S) ==
  /\ BagCardinality(S) = ExpectedCount
  /\ BagCardinality(Where(S, {r \in BagToSet(S) : CriticalNull(r)})) = 0

(***************************************************************************)
(* create_dim_tables: the two INSERT ... SELECT DISTINCT ... ON CONFLICT.  *)
(***************************************************************************)
Concat(a, b) == IF b = NullSym THEN NullSym ELSE a \o b

DimInstrumentoSelect(S) ==
  {[ticker |-> r.symbol, nome_ativo |-> Concat("Ativo ", r.symbol),
    tipo_ativo |-> "Acao"] : r \in BagToSet(S)}
DimTempoSelect(S) ==
  {[data_id |-> r.date, ano |-> ExtractYear(r.date),
    mes |-> ExtractMonth(r.date), dia_da_semana |-> ExtractDow(r.date)]
     : r \in BagToSet(S)}

TickerKeys(T) == {r.ticker : r \in BagToSet(T)}
DataIdKeys(T) == {r.data_id : r \in BagToSet(T)}

\* OnConflictTicker without the ON CONFLICT clause: every row is inserted
InsertAllTickers(T, rows) == rows
\* ON CONFLICT (ticker) DO NOTHING / ON CONFLICT (data_id) DO NOTHING: the
\* proposed rows whose key is not in the table yet
OnConflictTicker(T, rows) == {r \in rows : r.ticker \notin TickerKeys(T)}
OnConflictDataId(T, rows) == {r \in rows : r.data_id \notin DataIdKeys(T)}

InsertDimInstrumento(T, S) ==
  T (+) SetToBag(OnConflictTicker(T, DimInstrumentoSelect(S)))
\* InsertDimTempo as a reload: the table is rebuilt from staging
ReloadDimTempo(T, S) == SetToBag(DimTempoSelect(S))
InsertDimTempo(T, S) ==
  T (+) SetToBag(OnConflictDataId(T, DimTempoSelect(S)))

\* PRIMARY KEY: the key is NOT NULL and UNIQUE
DuplicateTickers(T) ==
  {k \in TickerKeys(T) :
     BagCardinality(Where(T, {r \in BagToSet(T) : r.ticker = k})) > 1}
DuplicateDataIds(T) ==
  {k \in DataIdKeys(T) :
     BagCardinality(Where(T, {r \in BagToSet(T) : r.data_id = k})) > 1}
\* the outcome of the script of create_dim_tables on staging S
DimError(I, D, S) ==
  IF NullSym \in TickerKeys(InsertDimInstrumento(I, S))
    THEN "not_null_violation"
  ELSE IF DuplicateTickers(InsertDimInstrumento(I, S)) # {}
    THEN "unique_violation"
  ELSE IF NullDate \in DataIdKeys(InsertDimTempo(D, S))
    THEN "not_null_violation"
  ELSE IF DuplicateDataIds(InsertDimTempo(D, S)) # {}
    THEN "unique_violation"
  ELSE "none"

(***************************************************************************)
(* load_fact_table: the window LAG(close) OVER (PARTITION BY symbol        *)
(* ORDER BY date) and the daily variation.                                 *)
(***************************************************************************)
\* ORDER BY date: ascending, NULLS LAST
DateBefore(a, b) == IF a = NullDate THEN FALSE
                    ELSE IF b = NullDate THEN TRUE ELSE a < b
RECURSIVE SortDates(_)
SortDates(D) ==
  IF D = {} THEN <<>>
  ELSE LET m == CHOOSE x \in D : \A y \in D \ {x} : DateBefore(x, y)
       IN  <<m>> \o SortDates(D \ {m})

\* the rows of one partition that are peers in the ordering
Peers(S, sym, d) == Where(S, {r \in BagToSet(S) : r.symbol = sym /\ r.date = d})

\* The orders in which the window can visit a group of peers, each a
\* sequence of runs [row, n] (n adjacent copies of row).  ORDER BY date does
\* not order peers: every interleaving of the peers is a possible order.
\* Copies of one row are indistinguishable, so a group of identical rows has
\* the single order of one run.
Arrangements(G) ==
  LET R == BagToSet(G)
      I == {<<r, k>> : r \in R, k \in 1..1} \cup
           UNION {{<<r, k>> : k \in 2..G[r]} : r \in R}
      n == Cardinality(I)
  IN  IF Cardinality(R) <= 1
        THEN {[i \in 1..Cardinality(R) |->
                 [row |-> CHOOSE r \in R : TRUE, n |-> BagCardinality(G)]]}
        ELSE {[i \in 1..n |-> [row |-> p[i][1], n |-> 1]] :
                p \in {q \in [1..n -> I] :
                         \A i, j \in 1..n : i # j => q[i] # q[j]}}

RECURSIVE OrdersOver(_, _, _)
OrdersOver(S, sym, ds) ==
  IF ds = <<>> THEN {<<>>}
  ELSE {a \o rest : a \in Arrangements(Peers(S, sym, Head(ds))),
                    rest \in OrdersOver(S, sym, Tail(ds))}
\* the possible window orders of the partition of sym
WindowOrders(S, sym) ==
  OrdersOver(S, sym,
             SortDates({r.date : r \in {x \in BagToSet(S) : x.symbol = sym}}))

\* (close - LAG(close)) / NULLIF(LAG(close), 0) * 100
Variacao(close, lag) ==
  NumMul(NumDiv(NumSub(close, lag), NullIf(lag, Num(0))), Num(100))

FactRow(r, lag) ==
  [ticker |-> r.symbol, data_id |-> r.date, close |-> r.close,
   variacao_diaria |-> Variacao(r.close, lag)]

\* the rows selected for a partition visited in order o: LAG of the first
\* row of the partition is NULL, of any other row the close one row before
RECURSIVE PartitionRows(_, _)
PartitionRows(o, i) ==
  IF i > Len(o) THEN EmptyBag
  ELSE LET r == o[i].row
           lag == IF i = 1 THEN NullNum ELSE o[i - 1].row.close
       IN  Copies(FactRow(r, lag), 1)
           (+) Copies(FactRow(r, r.close), o[i].n - 1)
           (+) PartitionRows(o, i + 1)

RECURSIVE FactOver(_, _)
FactOver(S, syms) ==
  IF syms = {} THEN {EmptyBag}
  ELSE LET s == CHOOSE x \in syms : TRUE
       IN  {PartitionRows(o, 1) (+) rest :
              o \in WindowOrders(S, s), rest \in FactOver(S, syms \ {s})}
\* the results the SELECT of load_fact_table can produce on staging S
FactSelect(S) == FactOver(S, {r.symbol : r \in BagToSet(S)})

\* ForeignKeysHold for a fact table declared without REFERENCES
NoForeignKeys(F, I, D) == TRUE
\* REFERENCES dim_instrumento(ticker), REFERENCES dim_tempo(data_id): a
\* non-null reference must be a key of the dimension
ForeignKeysHold(F, I, D) ==
  \A r \in BagToSet(F) :
    /\ r.ticker # NullSym => r.ticker \in TickerKeys(I)
    /\ r.data_id # NullDate => r.data_id \in DataIdKeys(D)

(***************************************************************************)
(* calculate_volatility_view: the query of the materialized view.          *)
(***************************************************************************)
RECURSIVE SumTerms(_)
\* the sum of n * x over a set of terms <<row, n, x>>
SumTerms(T) ==
  IF T = {} THEN Num(0)
  ELSE LET t == CHOOSE x \in T : TRUE
       IN  NumAdd(NumMul(Num(t[2]), t[3]), SumTerms(T \ {t}))

\* STDDEV_SAMP over the rows R of F: NULL for fewer than two samples, else
\* the square root of (sum(x^2) - sum(x)^2 / n) / (n - 1); the value kept
\* is the fraction under the root
StddevSamp(F, R) ==
  LET n  == BagCardinality(Where(F, R))
      s1 == SumTerms({<<r, F[r], r.variacao_diaria>> : r \in R})
      s2 == SumTerms({<<r, F[r], NumMul(r.variacao_diaria, r.variacao_diaria)>>
                        : r \in R})
  IN  IF n < 2 THEN NullNum
      ELSE NumDiv(NumSub(s2, NumDiv(NumMul(s1, s1), Num(n))), Num(n - 1))

\* VolatilitySelect without its WHERE variacao_diaria IS NOT NULL
VolatilitySelectAllRows(F) ==
  LET W == BagToSet(F)
      G == {<<r.ticker, DateTruncWeek(r.data_id)>> : r \in W}
  IN  {[ticker |-> g[1], week |-> g[2],
        vol |-> StddevSamp(F, {r \in W : r.ticker = g[1]
                                         /\ DateTruncWeek(r.data_id) = g[2]})]
         : g \in G}
\* SELECT ticker, DATE_TRUNC('week', data_id), STDDEV_SAMP(variacao_diaria)
\* FROM fact WHERE variacao_diaria IS NOT NULL GROUP BY 1, 2
VolatilitySelect(F) ==
  LET W == {r \in BagToSet(F) : ~IsNull(r.variacao_diaria)}
      G == {<<r.ticker, DateTruncWeek(r.data_id)>> : r \in W}
  IN  {[ticker |-> g[1], week |-> g[2],
        vol |-> StddevSamp(F, {r \in W : r.ticker = g[1]
                                         /\ DateTruncWeek(r.data_id) = g[2]})]
         : g \in G}

\* CreateAndRefresh without the REFRESH: the view keeps the rows it was
\* created with
CreateOnly(exists, V, F) == IF exists THEN V ELSE VolatilitySelect(F)
\* CREATE MATERIALIZED VIEW IF NOT EXISTS ... ; REFRESH MATERIALIZED VIEW:
\* the rows of the view holding V (if it exists) after the script ran on F
CreateAndRefresh(exists, V, F) == VolatilitySelect(F)
\* REFRESH takes its snapshot and then the lock on the fact table.  When
\* it has waited for a load_fact_table of another run that truncated the
\* table and committed (raced), it reads the table with the snapshot taken
\* before: TRUNCATE is not MVCC-safe, the new rows are not visible and the
\* view is left without rows.  V is the result of a REFRESH that did not
\* wait.
RefreshResults(raced, V) == IF raced THEN {V, {}} ELSE {V}

(***************************************************************************)
(* Transactions.                                                           *)
(***************************************************************************)
\* StagingAfterRollback when each statement is committed on its own: the
\* TRUNCATE stays
StagingTruncated(S) == EmptyBag
\* _load_staging ends inside "with hook.get_conn() as conn" by an exception
\* after its TRUNCATE: the connection rolls back, staging is as before
StagingAfterRollback(S) == S
\* FactAfterRollback when each statement is committed on its own: the
\* TRUNCATE stays
FactTruncated(F) == [rows |-> EmptyBag, first_id |-> F.first_id]
\* the script of load_fact_table ends by an error after its TRUNCATE: it is
\* not committed (autocommit is off), the table is as before
FactAfterRollback(F) == F

(***************************************************************************)
(* _report_top_volatility: the query and the message.                      *)
(***************************************************************************)
\* The stored vol is the square root of the fraction kept; the query
\* averages and orders the stored values and ':.2f' rounds once, to the
\* nearest hundredth.  A square root is computed to five decimal places:
\* [root, exact] says the value is root * 10^-5 when exact, and lies
\* strictly between root * 10^-5 and (root + 1) * 10^-5 otherwise.
RECURSIVE ISqrtIn(_, _, _)
\* the integer square root of n, by bisection of lo..hi (lo^2 <= n < hi^2)
ISqrtIn(n, lo, hi) ==
  IF hi - lo <= 1 THEN lo
  ELSE LET mid == (lo + hi) \div 2
       IN  IF mid * mid <= n THEN ISqrtIn(n, mid, hi) ELSE ISqrtIn(n, lo, mid)
\* the next decimal digit of a square root: p is the root so far, r the
\* remainder with the next two digits of the radicand brought down
SqrtDigit(p, r) ==
  CHOOSE x \in 0..9 :
    /\ (20 * p + x) * x <= r
    /\ x = 9 \/ (20 * p + x + 1) * (x + 1) > r
\* k more decimal digits of the square root of a fraction of denominator d:
\* rem is the remainder of the long division that yields its digits
RECURSIVE SqrtDigits(_, _, _, _, _)
SqrtDigits(p, r, rem, d, k) ==
  IF k = 0 THEN [root |-> p, exact |-> r = 0 /\ rem = 0]
  ELSE LET r2 == r * 100 + (rem * 100) \div d
           x  == SqrtDigit(p, r2)
       IN  SqrtDigits(10 * p + x, r2 - (20 * p + x) * x,
                      (rem * 100) % d, d, k - 1)
\* the stored vol of the fraction v kept, in units of 10^-5
VolUnits(v) ==
  LET q  == v[1] \div v[2]
      p0 == ISqrtIn(q, 0, 46341)
  IN  SqrtDigits(p0, q - p0 * p0, v[1] % v[2], v[2], 5)

RECURSIVE SumInts(_)
SumInts(T) == IF T = {} THEN 0
              ELSE LET t == CHOOSE x \in T : TRUE IN t[2] + SumInts(T \ {t})

\* AVG(vol) ... GROUP BY ticker: NULL vols are ignored, the average of no
\* value is NULL (n = 0).  The average of n values is sum / n, where sum is
\* lo * 10^-5 when hi = lo and lies strictly between lo * 10^-5 and
\* hi * 10^-5 otherwise.
NullAvg == [lo |-> 0, hi |-> 0, n |-> 0]
IsNullAvg(a) == a.n = 0
AvgVolatility(V, t) ==
  LET W == {r \in V : r.ticker = t /\ ~IsNull(r.vol)}
      lo == SumInts({<<r, VolUnits(r.vol).root>> : r \in W})
  IN  IF W = {} THEN NullAvg
      ELSE [lo |-> lo,
            hi |-> lo + Cardinality({r \in W : ~VolUnits(r.vol).exact}),
            n  |-> Cardinality(W)]

\* ORDER BY avg_volatility DESC: a is sure to be returned before b.  NULLS
\* FIRST is the default of DESC.
OrdersBefore(a, b) ==
  IF IsNullAvg(b) THEN FALSE
  ELSE IF IsNullAvg(a) THEN TRUE
  ELSE IF b.hi > b.lo THEN a.lo * b.n >= b.hi * a.n
  ELSE a.lo * b.n > b.lo * a.n
\* LIMIT 1: the tickers the query can return first (ties in any order)
TopTickers(V) ==
  LET T == {r.ticker : r \in V}
  IN  {t \in T : \A u \in T :
         ~OrdersBefore(AvgVolatility(V, u), AvgVolatility(V, t))}

\* f"{top['avg_volatility']:.2f}": the hundredths the average a is rounded
\* to, to nearest; an average exactly half way is rounded either way (the
\* binary double nearest to it decides)
Hundredths(a) ==
  LET unit == 1000 * a.n
      down == (a.lo + 500 * a.n) \div unit
  IN  IF a.hi > a.lo
        THEN down .. ((a.hi - 1 + 500 * a.n) \div unit)
      ELSE IF (a.lo + 500 * a.n) % unit = 0 THEN {down - 1, down}
      ELSE {down}
\* the values the message can show for the average a; NULL is not formatted
Formatted(a) ==
  IF IsNullAvg(a) THEN {NullNum} ELSE {Frac(h, 100) : h \in Hundredths(a)}

NoMessage == [kind |-> "None", ticker |-> NullSym, avg_volatility |-> NullNum]
EmptyMessage == [kind |-> NoDataMessage, ticker |-> NullSym,
                 avg_volatility |-> NullNum]
\* 'Ativo {ticker} registrou maior volatilidade média ({x}%) na semana. ...'
TopMessage(t, x) == [kind |-> "Ativo", ticker |-> t, avg_volatility |-> x]
\* ReportMessages without the test of df.empty: the first row of an empty
\* result is taken, and no value can be formatted
ReportMessagesUnguarded(V) ==
  IF V = {} THEN {TopMessage(NullSym, NullNum)}
  ELSE UNION {{TopMessage(t, x) : x \in Formatted(AvgVolatility(V, t))}
                : t \in TopTickers(V)}
\* the messages _report_top_volatility can build from the view V
ReportMessages(V) ==
  IF V = {} THEN {EmptyMessage}
  ELSE UNION {{TopMessage(t, x) : x \in Formatted(AvgVolatility(V, t))}
                : t \in TopTickers(V)}
\* f"{top['avg_volatility']:.2f}" raises TypeError when the average is None
FormatFails(m) == m.kind = "Ativo" /\ IsNull(m.avg_volatility)

(***************************************************************************)
(* The DAG: tasks, dependencies and the scheduler's rules.  The DAG sets   *)
(* no max_active_runs, so DAG runs can be active together; i ranges over   *)
(* the DAG runs the model tracks.                                          *)
(***************************************************************************)
TaskChain == <<"setup_staging_table", "locate_csv", "load_staging",
               "run_data_quality_checks", "create_dim_tables",
               "load_fact_table", "calculate_volatility_view",
               "report_top_volatility", "log_execution_summary">>
Tasks == {TaskChain[i] : i \in 1..Len(TaskChain)}
Pos(t) == CHOOSE i \in 1..Len(TaskChain) : TaskChain[i] = t

\* the DAG runs tracked: the record of a finished run is replaced by the
\* next run created
DagRuns == 1..MaxActiveRuns

\* Upstream with the chain cut after load_staging: the quality check is a
\* branch of its own and create_dim_tables follows load_staging
UpstreamBypassingCheck(t) ==
  {TaskChain[i] : i \in {IF t = "create_dim_tables" THEN Pos(t) - 2
                         ELSE Pos(t) - 1} \cap (1..Len(TaskChain))}
\* a >> b >> c ...: the direct upstream tasks of t
Upstream(t) == {TaskChain[i] : i \in {Pos(t) - 1} \cap (1..Len(TaskChain))}
\* the tasks downstream of t, transitively
Downstream(t) == {u \in Tasks : Pos(u) > Pos(t)}
Leaves == {t \in Tasks : \A u \in Tasks : t \notin Upstream(u)}

Finished == {"success", "failed", "upstream_failed"}

\* Runnable under trigger rule all_done: upstream finished, in any state
RunnableAllDone(i, t) ==
  /\ dag_state[i] = "running"
  /\ \/ /\ state[i][t] = "none"
        /\ \A u \in Upstream(t) : state[i][u] \in Finished
     \/ state[i][t] = "up_for_retry" /\ elapsed[i] >= retry_delay
\* trigger rule all_success (the default), or a retry whose delay has passed
Runnable(i, t) ==
  /\ dag_state[i] = "running"
  /\ \/ /\ state[i][t] = "none"
        /\ \A u \in Upstream(t) : state[i][u] = "success"
     \/ state[i][t] = "up_for_retry" /\ elapsed[i] >= retry_delay

\* AfterFailure with the attempt counted one too late
AfterFailureOffByOne(i, t) ==
  IF try_number[i][t] <= retries THEN "up_for_retry" ELSE "failed"
\* the state of a task instance after an attempt that raised: up_for_retry
\* while attempts remain (default_args retries applies to every task)
AfterFailure(i, t) ==
  IF try_number[i][t] < retries THEN "up_for_retry" ELSE "failed"

\* an attempt of t in run i ends with err ("none": it succeeded).
\* stale[i]: the REFRESH of run i, whose task can be executing, can have
\* taken its snapshot before a load_fact_table of another run committed;
\* load_fact_table sets it, the next attempt of run i clears it.
Attempt(i, t, err) ==
  /\ try_number' = [try_number EXCEPT ![i][t] = @ + 1]
  /\ error' = [error EXCEPT ![i][t] = err]
  /\ state' = [state EXCEPT ![i][t] = IF err = "none" THEN "success"
                                      ELSE AfterFailure(i, t)]
  /\ elapsed' = [elapsed EXCEPT ![i] = 0]
  /\ faults' = IF err = "transient" THEN [faults EXCEPT ![i][t] = @ + 1]
               ELSE faults
  /\ incidents' = IF \/ err = "transient" /\ faults[i][t] = 0
                     \/ err = "duplicate_relation"
                    THEN incidents + 1 ELSE incidents
  /\ IF t = "load_fact_table" THEN TRUE
     ELSE stale' = [stale EXCEPT ![i] = FALSE]
  /\ UNCHANGED <<run, dag_state, file, pre, prev>>

\* A connection drop or timeout can end any attempt that uses the
\* warehouse, in any task of any run, before the transaction of the attempt
\* is committed or while its COMMIT is under way.  faults[i][t] counts the
\* attempts of t in run i that a fault ended; the first of them is an
\* incident.
CanFault(i, t) ==
  /\ faults[i][t] < MaxFaults
  /\ faults[i][t] > 0 \/ incidents < MaxIncidents

\* CREATE TABLE (or MATERIALIZED VIEW) IF NOT EXISTS of a relation that does
\* not exist, while the same task of another active run can be executing:
\* both transactions find the relation missing and create it, and the one
\* that comes second fails on the unique index of the system catalog.  A
\* collision is an incident.
CreateCollides(i, t, relations) ==
  /\ incidents < MaxIncidents
  /\ relations \ tables # {}
  /\ \E j \in DagRuns \ {i} : Runnable(j, t)

Snapshot == [tables |-> tables, staging |-> staging,
             dim_instrumento |-> dim_instrumento, dim_tempo |-> dim_tempo,
             fact_movimentacao_diaria |-> fact_movimentacao_diaria,
             fact_id_seq |-> fact_id_seq,
             volatility_weekly |-> volatility_weekly]

NoXCom == [csv_path |-> "None", report_message |-> NoMessage]

Init ==
  /\ file = NoFile
  /\ run = 0
  /\ dag_state = [i \in DagRuns |-> "none"]
  /\ state = [i \in DagRuns |-> [t \in Tasks |-> "none"]]
  /\ try_number = [i \in DagRuns |-> [t \in Tasks |-> 0]]
  /\ error = [i \in DagRuns |-> [t \in Tasks |-> "none"]]
  /\ elapsed = [i \in DagRuns |-> 0]
  /\ faults = [i \in DagRuns |-> [t \in Tasks |-> 0]]
  /\ incidents = 0
  /\ stale = [i \in DagRuns |-> FALSE]
  /\ xcom = [i \in DagRuns |-> NoXCom]
  /\ log = [i \in DagRuns |-> NoMessage]
  /\ tables = {}
  /\ staging = EmptyBag
  /\ dim_instrumento = EmptyBag
  /\ dim_tempo = EmptyBag
  /\ fact_movimentacao_diaria = [rows |-> EmptyBag, first_id |-> 1]
  /\ fact_id_seq = 0
  /\ volatility_weekly = {}
  /\ pre = Snapshot
  /\ prev = [state |-> [i \in DagRuns |-> "none"], file |-> NoFile,
             slot |-> 1, serial |-> TRUE]

\* The schedule or a manual trigger creates a DAG run, whether or not
\* another run is still active (Airflow's own limit is 16 active runs per
\* DAG).  The file at csv_path is whatever the latest delivery left there.
\* prev records the runs and the file at that moment, and whether every
\* run so far was created while no other run was active; pre is the
\* warehouse at the latest moment a run was created while no other run was
\* active.
TriggerRun ==
  /\ run < MaxRuns
  /\ \E i \in DagRuns :
       /\ dag_state[i] # "running"
       /\ \A j \in DagRuns : j < i => dag_state[j] = "running"
       /\ dag_state' = [dag_state EXCEPT ![i] = "running"]
       /\ state' = [state EXCEPT ![i] = [t \in Tasks |-> "none"]]
       /\ try_number' = [try_number EXCEPT ![i] = [t \in Tasks |-> 0]]
       /\ error' = [error EXCEPT ![i] = [t \in Tasks |-> "none"]]
       /\ elapsed' = [elapsed EXCEPT ![i] = 0]
       /\ faults' = [faults EXCEPT ![i] = [t \in Tasks |-> 0]]
       /\ stale' = [stale EXCEPT ![i] = FALSE]
       /\ xcom' = [xcom EXCEPT ![i] = NoXCom]
       /\ log' = [log EXCEPT ![i] = NoMessage]
       /\ prev' = [state |-> dag_state, file |-> file, slot |-> i,
                   serial |-> /\ prev.serial
                              /\ \A j \in DagRuns :
                                   dag_state[j] # "running"]
  /\ run' = run + 1
  /\ file' \in FileStates
  /\ incidents' = IF file' \in RegularFiles THEN incidents
                  ELSE incidents + 1
  /\ incidents' <= MaxIncidents
  /\ pre' = IF \E j \in DagRuns : dag_state[j] = "running" THEN pre
            ELSE Snapshot
  /\ UNCHANGED warehouse

\* a task whose upstream failed is never run: it becomes upstream_failed
MarkUpstreamFailed(i) ==
  /\ dag_state[i] = "running"
  /\ \E t \in Tasks :
       /\ state[i][t] = "none"
       /\ \E u \in Upstream(t) : state[i][u] \in {"failed", "upstream_failed"}
       /\ state' = [state EXCEPT ![i][t] = "upstream_failed"]
  /\ UNCHANGED <<file, run, dag_state, try_number, error, elapsed,
                 faults, incidents, stale, xcom, log, warehouse, pre,
                 prev>>

\* retry_delay passes while a task waits in up_for_retry
RetryDelayElapses(i) ==
  /\ dag_state[i] = "running"
  /\ \E t \in Tasks : state[i][t] = "up_for_retry"
  /\ elapsed[i] < retry_delay
  /\ elapsed' = [elapsed EXCEPT ![i] = @ + retry_delay]
  /\ UNCHANGED <<file, run, dag_state, state, try_number, error,
                 faults, incidents, stale, xcom, log, warehouse, pre,
                 prev>>

\* the state of the DAG run once every task instance is finished
DagRunState(i) ==
  IF \A t \in Leaves : state[i][t] = "success" THEN "success" ELSE "failed"

UpdateDagRunState(i) ==
  /\ dag_state[i] = "running"
  /\ \A t \in Tasks : state[i][t] \in Finished
  /\ dag_state' = [dag_state EXCEPT ![i] = DagRunState(i)]
  /\ UNCHANGED <<file, run, state, try_number, error, elapsed, faults,
                 incidents, stale, xcom, log, warehouse, pre, prev>>

(***************************************************************************)
(* The tasks.  Each action is one attempt of the task in DAG run i.        *)
(***************************************************************************)
\* CREATE TABLE IF NOT EXISTS staging.  The attempt succeeds, or fails on
\* a collision with the other run's CREATE, or is ended by a fault: before
\* its commit (nothing is created) or while the commit takes effect.
setup_staging_table(i) ==
  LET t == "setup_staging_table" IN
  /\ Runnable(i, t)
  /\ \/ /\ Attempt(i, t, "none")
        /\ tables' = tables \cup {"staging"}
     \/ /\ CreateCollides(i, t, {"staging"})
        /\ Attempt(i, t, "duplicate_relation")
        /\ UNCHANGED tables
     \/ /\ CanFault(i, t)
        /\ Attempt(i, t, "transient")
        /\ \/ UNCHANGED tables
           \/ tables' = tables \cup {"staging"}
  /\ UNCHANGED <<xcom, log, staging, dim_instrumento, dim_tempo,
                 fact_movimentacao_diaria, fact_id_seq, volatility_weekly>>

\* locate_csv without its xcom_push
LocateCsvWithoutPush(i) ==
  LET t == "locate_csv" IN
  /\ Runnable(i, t)
  /\ Attempt(i, t, IF file.exists THEN "none" ELSE "FileNotFoundError")
  /\ UNCHANGED <<xcom, log, warehouse>>
\* os.path.exists(csv_path), else FileNotFoundError; xcom_push('csv_path').
\* The XCom of a task instance is cleared when an attempt starts.
locate_csv(i) ==
  LET t == "locate_csv" IN
  /\ Runnable(i, t)
  /\ IF file.exists
       THEN /\ Attempt(i, t, "none")
            /\ xcom' = [xcom EXCEPT ![i].csv_path = csv_path]
       ELSE /\ Attempt(i, t, "FileNotFoundError")
            /\ xcom' = [xcom EXCEPT ![i].csv_path = "None"]
  /\ UNCHANGED <<log, warehouse>>

\* the error raised by _load_staging before its COPY completes, if any
LoadStagingError(i) ==
  IF "staging" \notin tables THEN "undefined_table"
  ELSE IF xcom[i].csv_path = "None" THEN "TypeError"
  ELSE IF ~file.exists THEN "FileNotFoundError"
  ELSE "none"

\* TRUNCATE TABLE staging; COPY staging FROM STDIN, committed together
\* when the "with" block of the connection is left.  A fault ends the
\* attempt before the commit (rollback) or, the COPY done, while the commit
\* takes effect: the attempt fails and staging holds the rows of the file.
load_staging(i) ==
  LET t == "load_staging" IN
  /\ Runnable(i, t)
  /\ \/ /\ Attempt(i, t, LoadStagingError(i))
        /\ staging' = IF LoadStagingError(i) = "none" THEN file.rows
                      ELSE StagingAfterRollback(staging)
     \/ /\ CanFault(i, t)
        /\ Attempt(i, t, "transient")
        /\ \/ staging' = StagingAfterRollback(staging)
           \/ LoadStagingError(i) = "none" /\ staging' = file.rows
  /\ UNCHANGED <<xcom, log, tables, dim_instrumento, dim_tempo,
                 fact_movimentacao_diaria, fact_id_seq, volatility_weekly>>

\* SQLCheckOperator: raises when the first row of the result is not truthy
run_data_quality_checks(i) ==
  LET t == "run_data_quality_checks" IN
  /\ Runnable(i, t)
  /\ \/ Attempt(i, t, IF "staging" \notin tables THEN "undefined_table"
                      ELSE IF QualityCheck(staging) THEN "none"
                      ELSE "check_failed")
     \/ CanFault(i, t) /\ Attempt(i, t, "transient")
  /\ UNCHANGED <<xcom, log, warehouse>>

\* the error of the script of create_dim_tables, if any
CreateDimTablesError ==
  IF "staging" \notin tables THEN "undefined_table"
  ELSE DimError(dim_instrumento, dim_tempo, staging)

\* the script of create_dim_tables ran to its end and is committed
CreateDimTablesCommitted ==
  /\ tables' = tables \cup {"dim_instrumento", "dim_tempo"}
  /\ dim_instrumento' = InsertDimInstrumento(dim_instrumento, staging)
  /\ dim_tempo' = InsertDimTempo(dim_tempo, staging)

\* CREATE TABLE IF NOT EXISTS (twice); INSERT ... ON CONFLICT DO NOTHING
\* (twice).  The attempt succeeds or fails on an error of the script, or
\* fails on a collision with the other run's CREATE, or is ended by a
\* fault, before its commit or while the commit takes effect.
create_dim_tables(i) ==
  LET t == "create_dim_tables" IN
  /\ Runnable(i, t)
  /\ \/ /\ Attempt(i, t, CreateDimTablesError)
        /\ IF CreateDimTablesError = "none"
             THEN CreateDimTablesCommitted
             ELSE UNCHANGED <<tables, dim_instrumento, dim_tempo>>
     \/ /\ CreateCollides(i, t, {"dim_instrumento", "dim_tempo"})
        /\ Attempt(i, t, "duplicate_relation")
        /\ UNCHANGED <<tables, dim_instrumento, dim_tempo>>
     \/ /\ CanFault(i, t)
        /\ Attempt(i, t, "transient")
        /\ \/ UNCHANGED <<tables, dim_instrumento, dim_tempo>>
           \/ CreateDimTablesError = "none" /\ CreateDimTablesCommitted
  /\ UNCHANGED <<xcom, log, staging, fact_movimentacao_diaria, fact_id_seq,
                 volatility_weekly>>

\* the error of the script of load_fact_table inserting the rows F, if any
LoadFactError(F) ==
  IF {"staging", "dim_instrumento", "dim_tempo"} \ tables # {}
    THEN "undefined_table"
  ELSE IF ~ForeignKeysHold(F, dim_instrumento, dim_tempo)
    THEN "foreign_key_violation"
  ELSE "none"

Min(a, b) == IF a < b THEN a ELSE b
\* the numbers of rows the INSERT of F can have inserted when a fault ends
\* the attempt: any number from none to all of its rows; of the numbers
\* short of all, those up to MaxInsertedBeforeFault are explored
InsertedBeforeFault(F) ==
  (0 .. Min(BagCardinality(F), MaxInsertedBeforeFault))
    \cup {BagCardinality(F)}
\* nextval of the SERIAL's sequence is not undone by a rollback: the
\* sequence after an attempt that inserted k rows and was rolled back.  A
\* rolled back CREATE TABLE takes the new sequence with it.
SequenceAfterRollback(k) ==
  IF "fact_movimentacao_diaria" \in tables
    THEN fact_id_seq + k ELSE fact_id_seq

\* the script of load_fact_table inserted the rows F and is committed.  A
\* calculate_volatility_view of another run that can be executing can have
\* been waiting for the lock of the TRUNCATE.
LoadFactCommitted(F) ==
  /\ tables' = tables \cup {"fact_movimentacao_diaria"}
  /\ fact_movimentacao_diaria' = [rows |-> F, first_id |-> fact_id_seq + 1]
  /\ fact_id_seq' = fact_id_seq + BagCardinality(F)
  /\ stale' = [k \in DagRuns |->
                stale[k] \/ Runnable(k, "calculate_volatility_view")]

\* CREATE TABLE IF NOT EXISTS; TRUNCATE; INSERT ... SELECT.  The ids of the
\* inserted rows are the next values of the sequence, first_id onwards, in
\* the order the executor returns the rows.  The attempt succeeds or fails
\* on an error of the script, or fails on a collision with the other run's
\* CREATE, or is ended by a fault, before its commit (rollback) or while
\* the commit takes effect.
load_fact_table(i) ==
  LET t == "load_fact_table" IN
  /\ Runnable(i, t)
  /\ \E F \in FactSelect(staging) :
       \/ /\ Attempt(i, t, LoadFactError(F))
          /\ IF LoadFactError(F) = "none"
               THEN LoadFactCommitted(F)
               ELSE /\ fact_id_seq' =
                         IF LoadFactError(F) = "undefined_table"
                           THEN fact_id_seq
                           ELSE SequenceAfterRollback(BagCardinality(F))
                    /\ fact_movimentacao_diaria' =
                         FactAfterRollback(fact_movimentacao_diaria)
                    /\ UNCHANGED <<tables, stale>>
       \/ /\ CreateCollides(i, t, {"fact_movimentacao_diaria"})
          /\ Attempt(i, t, "duplicate_relation")
          /\ UNCHANGED <<tables, fact_movimentacao_diaria, fact_id_seq,
                         stale>>
       \/ /\ CanFault(i, t)
          /\ Attempt(i, t, "transient")
          /\ \/ /\ \E k \in InsertedBeforeFault(F) :
                     fact_id_seq' = SequenceAfterRollback(k)
                /\ fact_movimentacao_diaria' =
                     FactAfterRollback(fact_movimentacao_diaria)
                /\ UNCHANGED <<tables, stale>>
             \/ LoadFactError(F) = "none" /\ LoadFactCommitted(F)
  /\ UNCHANGED <<xcom, log, staging, dim_instrumento, dim_tempo,
                 volatility_weekly>>

\* the script of calculate_volatility_view of run i ran to its end and is
\* committed
VolatilityViewCommitted(i) ==
  /\ tables' = tables \cup {"volatility_weekly"}
  /\ volatility_weekly' \in
       RefreshResults(stale[i],
         CreateAndRefresh("volatility_weekly" \in tables, volatility_weekly,
                          fact_movimentacao_diaria.rows))

\* CREATE MATERIALIZED VIEW IF NOT EXISTS ...; REFRESH MATERIALIZED VIEW.
\* The attempt succeeds or fails on an error of the script, or fails on a
\* collision with the other run's CREATE, or is ended by a fault, before
\* its commit or while the commit takes effect.  The REFRESH reads the
\* fact rows of the moment, or no row when it waited for the lock of
\* another run's load_fact_table.
calculate_volatility_view(i) ==
  LET t == "calculate_volatility_view"
      err == IF "fact_movimentacao_diaria" \in tables THEN "none"
             ELSE "undefined_table"
  IN
  /\ Runnable(i, t)
  /\ \/ /\ Attempt(i, t, err)
        /\ IF err = "none"
             THEN VolatilityViewCommitted(i)
             ELSE UNCHANGED <<tables, volatility_weekly>>
     \/ /\ CreateCollides(i, t, {"volatility_weekly"})
        /\ Attempt(i, t, "duplicate_relation")
        /\ UNCHANGED <<tables, volatility_weekly>>
     \/ /\ CanFault(i, t)
        /\ Attempt(i, t, "transient")
        /\ \/ UNCHANGED <<tables, volatility_weekly>>
           \/ err = "none" /\ VolatilityViewCommitted(i)
  /\ UNCHANGED <<xcom, log, staging, dim_instrumento, dim_tempo,
                 fact_movimentacao_diaria, fact_id_seq>>

\* the query, the message and xcom_push('report_message')
report_top_volatility(i) ==
  LET t == "report_top_volatility" IN
  /\ Runnable(i, t)
  /\ \/ \E m \in ReportMessages(volatility_weekly) :
          LET err == IF "volatility_weekly" \notin tables THEN "undefined_table"
                     ELSE IF FormatFails(m) THEN "TypeError" ELSE "none"
          IN  /\ Attempt(i, t, err)
              /\ xcom' = [xcom EXCEPT ![i].report_message =
                            IF err = "none" THEN m ELSE NoMessage]
     \/ /\ CanFault(i, t)
        /\ Attempt(i, t, "transient")
        /\ xcom' = [xcom EXCEPT ![i].report_message = NoMessage]
  /\ UNCHANGED <<log, warehouse>>

\* log_execution_summary pushing the summary it logged under the key of
\* the report
LogSummaryPushingMessage(i) ==
  LET t == "log_execution_summary" IN
  /\ Runnable(i, t)
  /\ Attempt(i, t, "none")
  /\ log' = [log EXCEPT ![i] = xcom[i].report_message]
  /\ xcom' = [xcom EXCEPT ![i].report_message = EmptyMessage]
  /\ UNCHANGED warehouse
\* xcom_pull('report_message') and logging.info
log_execution_summary(i) ==
  LET t == "log_execution_summary" IN
  /\ Runnable(i, t)
  /\ Attempt(i, t, "none")
  /\ log' = [log EXCEPT ![i] = xcom[i].report_message]
  /\ UNCHANGED <<xcom, warehouse>>

Next ==
  \/ TriggerRun
  \/ \E i \in DagRuns : setup_staging_table(i)
  \/ \E i \in DagRuns : locate_csv(i)
  \/ \E i \in DagRuns : load_staging(i)
  \/ \E i \in DagRuns : run_data_quality_checks(i)
  \/ \E i \in DagRuns : create_dim_tables(i)
  \/ \E i \in DagRuns : load_fact_table(i)
  \/ \E i \in DagRuns : calculate_volatility_view(i)
  \/ \E i \in DagRuns : report_top_volatility(i)
  \/ \E i \in DagRuns : log_execution_summary(i)
  \/ \E i \in DagRuns : MarkUpstreamFailed(i)
  \/ \E i \in DagRuns : RetryDelayElapses(i)
  \/ \E i \in DagRuns : UpdateDagRunState(i)

Spec == Init /\ [][Next]_vars

(***************************************************************************)
(* Properties.  A property of the steps is a formula [][P]_vars: P holds   *)
(* of every step, of whichever DAG run it is.                              *)
(***************************************************************************)
Check == "run_data_quality_checks"
LoadStaging == "load_staging"
LoadFact == "load_fact_table"
Refresh == "calculate_volatility_view"
Report == "report_top_volatility"
LogSummary == "log_execution_summary"
\* task t has started executing in DAG run i
Started(i, t) == try_number[i][t] > 0
RunOver(i) == dag_state[i] \in {"success", "failed"}
\* the step is an attempt of task t in DAG run i
AttemptOf(i, t) == try_number'[i][t] = try_number[i][t] + 1
\* the step is an attempt of task t in DAG run i that failed / succeeded
FailedAttempt(i, t) == AttemptOf(i, t) /\ error'[i][t] # "none"
SucceededNow(i, t) == AttemptOf(i, t) /\ error'[i][t] = "none"
\* no DAG run but i has been active since i was created
RunsAlone(i) ==
  /\ prev.slot = i
  /\ \A j \in DagRuns : prev.state[j] # "running"
\* the runs so far were serialized: each was created while no other run
\* was active (the specification's single-run-at-a-time assumption)
Serialized == prev.serial

\* q has a decimal expansion that ends
RECURSIVE Without(_, _)
Without(d, p) == IF d % p = 0 THEN Without(d \div p, p) ELSE d
Terminates(q) == IsNull(q) \/ Without(Without(q[2], 2), 5) = 1
\* the quotients stored in the warehouse are exact: the daily variations
\* and the variances kept for the weekly volatility
QuotientsAreExact ==
  /\ \A r \in BagToSet(fact_movimentacao_diaria.rows) :
       Terminates(r.variacao_diaria)
  /\ \A v \in volatility_weekly : Terminates(v.vol)

C1_Step ==
  \A i \in DagRuns : \A t \in Tasks :
    (Pos(t) > Pos(Check) /\ AttemptOf(i, t)) =>
      /\ state[i][Check] = "success"
      /\ Serialized =>
           /\ BagCardinality(staging) = 750000
           /\ \A r \in BagToSet(staging) :
                ~IsNull(r.close) /\ r.date # NullDate
\* C1: no step downstream of run_data_quality_checks starts executing in a
\* run unless the check has succeeded in that run (runs overlapping or
\* not), i.e., the runs being serialized, unless staging holds exactly
\* 750000 rows, none of them with a null date or a null close.
C1_GateBeforeDownstream == [][C1_Step]_vars
C1_Witness ==
  /\ run = 2
  /\ Serialized
  /\ staging # pre.staging
  /\ \E i \in DagRuns :
       /\ prev.slot = i
       /\ try_number[i][LoadStaging] > 1
       /\ state[i][Check] = "success"
       /\ Started(i, LogSummary)

\* C2: when the predicate of run_data_quality_checks is false, the step
\* fails terminally on its first attempt and is never retried.
C2_CheckFailureIsTerminal ==
  \A i \in DagRuns :
    error[i][Check] = "check_failed" =>
      state[i][Check] = "failed" /\ try_number[i][Check] = 1

\* C3: a step is invoked only when every step before it in the chain has
\* succeeded; when a step ends failed no step downstream of it is executed
\* in that run and the run ends failed.
C3_FailFast ==
  \A i \in DagRuns : \A t \in Tasks :
    /\ Started(i, t) =>
         \A u \in Tasks : Pos(u) < Pos(t) => state[i][u] = "success"
    /\ state[i][t] = "failed" =>
         /\ \A u \in Tasks : Pos(u) > Pos(t) => ~Started(i, u)
         /\ RunOver(i) => dag_state[i] = "failed"
C3_Witness ==
  \E i \in DagRuns :
    /\ dag_state[i] = "failed"
    /\ state[i]["load_fact_table"] = "failed"
    /\ state[i]["log_execution_summary"] = "upstream_failed"

\* C4: a step is attempted at most 4 times in a run (retries = 3); every
\* attempt after the first is made from up_for_retry once the retry delay
\* of 5 minutes has passed; after the fourth failed attempt the step is
\* failed and is not attempted again in that run.
C4_Attempts ==
  \A i \in DagRuns : \A t \in Tasks :
    /\ try_number[i][t] <= 4
    /\ (try_number[i][t] = 4 /\ error[i][t] # "none")
         => state[i][t] = "failed"
    /\ state[i][t] = "up_for_retry" => try_number[i][t] \in 1..3
C4_Step ==
  \A i \in DagRuns : \A t \in Tasks :
    /\ (AttemptOf(i, t) /\ try_number[i][t] >= 1) =>
         state[i][t] = "up_for_retry" /\ elapsed[i] >= 5
    /\ (state[i][t] = "failed" /\ dag_state'[i] = dag_state[i])
         => try_number'[i][t] = try_number[i][t]
C4_BoundedRetry == []C4_Attempts /\ [][C4_Step]_vars
C4_Witness ==
  \E i \in DagRuns : \E t \in Tasks :
    /\ state[i][t] = "failed"
    /\ try_number[i][t] = 4
    /\ error[i][t] = "transient"

\* C5: when the CSV file is absent locate_csv is attempted exactly once and
\* fails for good, without a retry.
C5_MissingFileIsFatal ==
  \A i \in DagRuns :
    error[i]["locate_csv"] = "FileNotFoundError" =>
      state[i]["locate_csv"] = "failed" /\ try_number[i]["locate_csv"] = 1

\* C6: a run whose quality check fails, the runs being serialized, ends
\* failed, and dim_instrumento, dim_tempo, fact_movimentacao_diaria and
\* volatility_weekly hold, from the failure of the check to the end of the
\* run, exactly what they held when the run was created.
C6_FailedGateTouchesNothing ==
  \A i \in DagRuns :
    (/\ Serialized
     /\ prev.slot = i
     /\ error[i][Check] = "check_failed" \/ state[i][Check] = "failed")
    => /\ RunOver(i) => dag_state[i] = "failed"
       /\ dim_instrumento = pre.dim_instrumento
       /\ dim_tempo = pre.dim_tempo
       /\ fact_movimentacao_diaria = pre.fact_movimentacao_diaria
       /\ volatility_weekly = pre.volatility_weekly
C6_Witness ==
  /\ run = 2
  /\ Serialized
  /\ \E i \in DagRuns :
       /\ prev.slot = i
       /\ dag_state[i] = "failed"
       /\ error[i][Check] = "check_failed"
  /\ BagCardinality(staging) = 749999
  /\ pre.volatility_weekly # {}
  /\ staging # pre.staging

\* C7: a run that succeeds right after a successful run on the same file,
\* no other run being active, leaves dim_instrumento, dim_tempo,
\* fact_movimentacao_diaria (ids included) and volatility_weekly as the
\* first run left them.
C7_RerunIdentical ==
  \A i \in DagRuns :
    (/\ dag_state[i] = "success"
     /\ RunsAlone(i)
     /\ prev.state[i] = "success"
     /\ \A j \in DagRuns \ {i} : prev.state[j] = "none"
     /\ prev.file = file)
    => /\ dim_instrumento = pre.dim_instrumento
       /\ dim_tempo = pre.dim_tempo
       /\ fact_movimentacao_diaria = pre.fact_movimentacao_diaria
       /\ volatility_weekly = pre.volatility_weekly

\* the staging rows of a ticker and the dates they carry
RowsOf(sym) == {s \in BagToSet(staging) : s.symbol = sym}
FirstDate(sym) ==
  CHOOSE d \in {s.date : s \in RowsOf(sym)} :
    \A s \in RowsOf(sym) : ~DateBefore(s.date, d)
HasEarlierDate(r) == \E s \in RowsOf(r.ticker) : DateBefore(s.date, r.data_id)
PrecedingDate(r) ==
  CHOOSE d \in {s.date : s \in RowsOf(r.ticker)} :
    /\ DateBefore(d, r.data_id)
    /\ \A s \in RowsOf(r.ticker) :
         DateBefore(s.date, r.data_id) => ~DateBefore(d, s.date)
PrecedingCloseZero(r) ==
  /\ HasEarlierDate(r)
  /\ \E s \in RowsOf(r.ticker) : s.date = PrecedingDate(r) /\ s.close = Num(0)
\* staging passes the quality check
PassesGate ==
  /\ BagCardinality(staging) = ExpectedCount
  /\ \A r \in BagToSet(staging) : ~IsNull(r.close) /\ r.date # NullDate

C8_Step ==
  \A i \in DagRuns :
    (SucceededNow(i, LoadFact) /\ PassesGate) =>
      \A r \in BagToSet(fact_movimentacao_diaria'.rows) :
        IsNull(r.variacao_diaria) <=>
          (r.data_id = FirstDate(r.ticker) \/ PrecedingCloseZero(r))
\* C8: when load_fact_table succeeds on a staging that passes the quality
\* check, variacao_diaria of a fact row is null if and only if the row has
\* the earliest date of its ticker in staging or the close on the ticker's
\* preceding date is zero.
C8_NullIffFirstOrZero == [][C8_Step]_vars

\* C9: every row of fact_movimentacao_diaria has its ticker in
\* dim_instrumento and its data_id in dim_tempo, in every state and over any
\* sequence of runs on different files: a reference that is not null is
\* a key of its dimension whether runs overlap or not, and in a sequence
\* of runs no reference is null.
C9_ReferentialIntegrity ==
  \A r \in BagToSet(fact_movimentacao_diaria.rows) :
    /\ r.ticker # NullSym => r.ticker \in TickerKeys(dim_instrumento)
    /\ r.data_id # NullDate => r.data_id \in DataIdKeys(dim_tempo)
    /\ Serialized => r.ticker # NullSym /\ r.data_id # NullDate
C9_Witness ==
  /\ run = 2
  /\ Serialized
  /\ \E i \in DagRuns : prev.slot = i /\ state[i][LoadFact] = "success"
  /\ staging # pre.staging
  /\ pre.fact_movimentacao_diaria.rows # EmptyBag
  /\ \E r \in BagToSet(fact_movimentacao_diaria.rows) :
       /\ r.ticker \notin TickerKeys(pre.dim_instrumento)
       /\ r.data_id \notin DataIdKeys(pre.dim_tempo)

\* C10: dim_instrumento holds at most one row per ticker and dim_tempo at
\* most one row per data_id, and create_dim_tables never fails on a key that
\* is already present, over any sequence of runs.
C10_NoDuplicateKeys ==
  /\ \A k \in TickerKeys(dim_instrumento) :
       BagCardinality(Where(dim_instrumento,
         {r \in BagToSet(dim_instrumento) : r.ticker = k})) = 1
  /\ \A k \in DataIdKeys(dim_tempo) :
       BagCardinality(Where(dim_tempo,
         {r \in BagToSet(dim_tempo) : r.data_id = k})) = 1
  /\ \A i \in DagRuns : error[i]["create_dim_tables"] # "unique_violation"
C10_Witness ==
  /\ run = 2
  /\ \E i \in DagRuns : state[i]["create_dim_tables"] = "success"
  /\ \E r \in BagToSet(staging) :
       /\ r.symbol \in TickerKeys(pre.dim_instrumento)
       /\ r.date \in DataIdKeys(pre.dim_tempo)
  /\ \E r \in BagToSet(staging) :
       r.symbol \notin TickerKeys(pre.dim_instrumento)
  /\ \A r \in BagToSet(staging) : r.symbol \in TickerKeys(dim_instrumento)

\* the (ticker, week) groups of the fact rows with a daily variation
VariationRows == {r \in BagToSet(fact_movimentacao_diaria.rows) :
                    ~IsNull(r.variacao_diaria)}
WeekGroups == {<<r.ticker, DateTruncWeek(r.data_id)>> : r \in VariationRows}
ViewKeys(V) == {<<v.ticker, v.week>> : v \in V}

C11_Step ==
  \A i \in DagRuns :
    (SucceededNow(i, Refresh) /\ ~stale[i]) =>
      /\ fact_movimentacao_diaria' = fact_movimentacao_diaria
      /\ ViewKeys(volatility_weekly') = WeekGroups
      /\ \A g \in WeekGroups :
           Cardinality({v \in volatility_weekly' :
                          <<v.ticker, v.week>> = g}) = 1
      /\ \A v \in volatility_weekly' :
           v.vol = StddevSamp(fact_movimentacao_diaria.rows,
                     {r \in VariationRows :
                        /\ r.ticker = v.ticker
                        /\ DateTruncWeek(r.data_id) = v.week})
ViewTickers == {v.ticker : v \in volatility_weekly}
\* ticker t has a mean weekly volatility and no ticker is sure to have a
\* higher one
HighestMean(t) ==
  /\ ~IsNullAvg(AvgVolatility(volatility_weekly, t))
  /\ \A u \in ViewTickers :
       IsNullAvg(AvgVolatility(volatility_weekly, u))
       \/ ~OrdersBefore(AvgVolatility(volatility_weekly, u),
                        AvgVolatility(volatility_weekly, t))
C12_Step ==
  \A i \in DagRuns :
    (/\ AttemptOf(i, Report)
     /\ error'[i][Report] # "transient"
     /\ volatility_weekly # {}
     /\ \E u \in ViewTickers : ~IsNullAvg(AvgVolatility(volatility_weekly, u)))
    => /\ error'[i][Report] = "none"
       /\ xcom'[i].report_message.kind = "Ativo"
       /\ HighestMean(xcom'[i].report_message.ticker)
\* C12: when volatility_weekly is not empty, report_top_volatility names
\* exactly one ticker, and that ticker has the highest mean weekly
\* volatility of all tickers: a ticker whose weekly volatilities are all
\* null is never chosen over a ticker with a defined mean.
C12_TopIsHighestMean == [][C12_Step]_vars

\* v = (k - c) / c * 100 for the fractions v, k and c, in whole numbers
IsChangeFrom(v, k, c) ==
  /\ ~IsNull(v) /\ ~IsNull(k) /\ ~IsNull(c)
  /\ c[1] # 0
  /\ v[1] * k[2] * c[1] = 100 * v[2] * (k[1] * c[2] - c[1] * k[2])
\* the closes staging holds for the ticker of fact row r on date d
ClosesOn(r, d) == {s.close : s \in {x \in RowsOf(r.ticker) : x.date = d}}
C13_Step ==
  \A i \in DagRuns :
    (SucceededNow(i, LoadFact) /\ PassesGate) =>
      /\ \A r \in BagToSet(fact_movimentacao_diaria'.rows) :
           (/\ HasEarlierDate(r)
            /\ \E c \in ClosesOn(r, PrecedingDate(r)) : c # Num(0))
           => \E c \in ClosesOn(r, PrecedingDate(r)) :
                IsChangeFrom(r.variacao_diaria, r.close, c)
      /\ staging = FileA =>
           {<<r.data_id, r.close, r.variacao_diaria>> :
              r \in {x \in BagToSet(fact_movimentacao_diaria'.rows) :
                       x.ticker = "A"}}
           = {<<1, Num(10), NullNum>>, <<2, Num(12), Num(20)>>,
              <<3, Num(9), Num(0 - 25)>>}
\* C13: when load_fact_table succeeds on a staging that passes the quality
\* check, every fact row that has a row of its ticker on an earlier date,
\* with a close on the immediately preceding date that is not zero, has
\* variacao_diaria = (close - previous_close) / previous_close * 100, where
\* previous_close is a close of the ticker on that preceding date; the
\* closes 10, 12, 9 of one ticker on consecutive dates give null, 20, -25.
C13_DailyVariation == [][C13_Step]_vars

\* every row of table T is in T2 as it was
KeepsRows(T, T2) == \A r \in BagToSet(T) : r \in BagToSet(T2) /\ T2[r] = T[r]
C14_Step ==
  /\ KeepsRows(dim_instrumento, dim_instrumento')
  /\ KeepsRows(dim_tempo, dim_tempo')
  /\ \A r \in BagToSet(dim_instrumento') \ BagToSet(dim_instrumento) :
       r.ticker \notin TickerKeys(dim_instrumento)
  /\ \A r \in BagToSet(dim_tempo') \ BagToSet(dim_tempo) :
       r.data_id \notin DataIdKeys(dim_tempo)
  /\ (dim_instrumento' # dim_instrumento \/ dim_tempo' # dim_tempo)
       => \E i \in DagRuns : AttemptOf(i, "create_dim_tables")
\* C14: the dimensions are append-only and the first write wins: no step of
\* any run modifies or removes a row of dim_instrumento or dim_tempo once
\* its key is there, and only create_dim_tables adds rows, for keys that
\* are not there yet.
C14_FirstWriteWins == [][C14_Step]_vars
C14_Witness ==
  /\ run = 2
  /\ \E i \in DagRuns : state[i]["create_dim_tables"] = "success"
  /\ pre.dim_tempo # EmptyBag
  /\ dim_tempo # pre.dim_tempo
  /\ dim_instrumento # pre.dim_instrumento
  /\ \E r \in BagToSet(pre.dim_tempo) :
       r.data_id \in {s.date : s \in BagToSet(staging)}

C15_Step ==
  \A i \in DagRuns :
    /\ (/\ AttemptOf(i, Report)
        /\ error'[i][Report] # "transient"
        /\ volatility_weekly = {})
       => /\ state'[i][Report] = "success"
          /\ xcom'[i].report_message = EmptyMessage
    /\ AttemptOf(i, LogSummary)
       => /\ state'[i][LogSummary] = "success"
          /\ xcom[i].report_message = EmptyMessage => log'[i] = EmptyMessage
\* C15: when volatility_weekly is empty after the refresh,
\* report_top_volatility does not fail on the empty result: it succeeds
\* with the fixed message that no volatility data is available, and that is
\* the message log_execution_summary logs.
C15_NoDataMessage == [][C15_Step]_vars
C15_Witness ==
  /\ run = 2
  /\ pre.volatility_weekly # {}
  /\ volatility_weekly = {}
  /\ \E i \in DagRuns :
       /\ state[i][Refresh] = "success"
       /\ state[i][LogSummary] = "success"
       /\ log[i] = EmptyMessage

C16_StepAsStated ==
  /\ \/ staging' = staging
     \/ /\ staging' = file.rows
        /\ \E i \in DagRuns : SucceededNow(i, LoadStaging)
  /\ \A i \in DagRuns : FailedAttempt(i, LoadStaging) => staging' = staging
\* C16 as stated: staging is replaced atomically: every step leaves it as
\* it was or, when an attempt of load_staging succeeds, with exactly the
\* rows of the source file, and an attempt of load_staging that fails, also
\* after its TRUNCATE, leaves staging with what it held before.
C16_AtomicReplace == [][C16_StepAsStated]_vars

C16_Step ==
  /\ \/ staging' = staging
     \/ /\ staging' = file.rows
        /\ \E i \in DagRuns :
             /\ AttemptOf(i, LoadStaging)
             /\ error'[i][LoadStaging] \in {"none", "transient"}
  /\ \A i \in DagRuns :
       /\ SucceededNow(i, LoadStaging) => staging' = file.rows
       /\ (FailedAttempt(i, LoadStaging)
             /\ error'[i][LoadStaging] # "transient") => staging' = staging
\* C16, amended: every step leaves staging as it was or with exactly the
\* rows of the source file, never empty or partly loaded; it holds the rows
\* of the file after an attempt of load_staging that succeeds, what it held
\* before after an attempt that fails on an error of its own, and one or
\* the other after an attempt that a lost connection ends, also after its
\* TRUNCATE: what it held before when the transaction is rolled back, the
\* rows of the file when the commit had taken effect.
C16_AtomicOrCommitted == [][C16_Step]_vars
C16_Witness ==
  /\ run = 2
  /\ Serialized
  /\ \E i \in DagRuns :
       /\ prev.slot = i
       /\ error[i][LoadStaging] = "transient"
       /\ state[i][LoadStaging] = "up_for_retry"
       /\ try_number[i][LoadStaging] = 1
  /\ pre.staging # EmptyBag
  /\ staging # pre.staging
  /\ file.exists /\ file.rows = staging

C17_StepAsStated ==
  \A i \in DagRuns :
    FailedAttempt(i, LoadFact)
    => /\ fact_movimentacao_diaria' = fact_movimentacao_diaria
       /\ volatility_weekly' = volatility_weekly
       /\ staging' = staging
       /\ dim_instrumento' = dim_instrumento
       /\ dim_tempo' = dim_tempo
\* C17 as stated: when an attempt of load_fact_table fails, also after its
\* TRUNCATE and INSERT were executed, fact_movimentacao_diaria and
\* volatility_weekly hold what they held before the step began, while
\* staging and the dimensions keep what the earlier steps of the run wrote.
C17_FailedFactLoad == [][C17_StepAsStated]_vars

C17_Step ==
  \A i \in DagRuns :
    FailedAttempt(i, LoadFact)
    => /\ \/ fact_movimentacao_diaria' = fact_movimentacao_diaria
          \/ /\ error'[i][LoadFact] = "transient"
             /\ fact_movimentacao_diaria'.rows \in FactSelect(staging)
             /\ fact_movimentacao_diaria'.first_id = fact_id_seq + 1
       /\ volatility_weekly' = volatility_weekly
       /\ staging' = staging
       /\ dim_instrumento' = dim_instrumento
       /\ dim_tempo' = dim_tempo
\* C17, amended: an attempt of load_fact_table that fails leaves
\* volatility_weekly, staging and the dimensions as they were; it leaves
\* fact_movimentacao_diaria as it was before the step began, also after
\* its TRUNCATE and INSERT were executed, unless a lost connection ended
\* the attempt while its commit took effect: then the table holds the rows
\* the script derives from the current staging, all of them.
C17_FailedLoadRollsBackOrCommits == [][C17_Step]_vars
C17_Witness ==
  /\ run = 2
  /\ \E i \in DagRuns :
       /\ RunsAlone(i)
       /\ error[i][LoadFact] = "transient"
       /\ state[i][LoadFact] = "up_for_retry"
       /\ try_number[i][LoadFact] = 1
  /\ pre.fact_movimentacao_diaria.rows # EmptyBag
  /\ fact_movimentacao_diaria.rows # pre.fact_movimentacao_diaria.rows
  /\ fact_movimentacao_diaria.rows \in FactSelect(staging)
  /\ pre.volatility_weekly # {}
  /\ volatility_weekly = pre.volatility_weekly
  /\ dim_tempo # pre.dim_tempo

C18_Step ==
  /\ volatility_weekly' # volatility_weekly =>
       \E i \in DagRuns :
         /\ AttemptOf(i, Refresh)
         /\ error'[i][Refresh] \in {"none", "transient"}
  /\ \A i \in DagRuns :
       (/\ AttemptOf(i, Refresh)
        /\ \/ error'[i][Refresh] = "none"
           \/ volatility_weekly' # volatility_weekly)
       => /\ fact_movimentacao_diaria' = fact_movimentacao_diaria
          /\ \/ volatility_weekly' =
                  VolatilitySelect(fact_movimentacao_diaria.rows)
             \/ stale[i] /\ volatility_weekly' = {}
  /\ fact_movimentacao_diaria' # fact_movimentacao_diaria =>
       /\ volatility_weekly' = volatility_weekly
       /\ \E i \in DagRuns :
            /\ AttemptOf(i, LoadFact)
            /\ error'[i][LoadFact] \in {"none", "transient"}
  /\ \/ /\ volatility_weekly' = volatility_weekly
        /\ fact_movimentacao_diaria' = fact_movimentacao_diaria
     \/ fact_movimentacao_diaria'.rows # fact_movimentacao_diaria.rows
     \/ volatility_weekly # VolatilitySelect(fact_movimentacao_diaria.rows)
     \/ volatility_weekly' =
          VolatilitySelect(fact_movimentacao_diaria'.rows)
     \/ \E i \in DagRuns : AttemptOf(i, Refresh) /\ stale[i]
C19_Step ==
  \A i \in DagRuns :
    dag_state[i] = "running" =>
      /\ xcom'[i].csv_path # xcom[i].csv_path =>
           /\ AttemptOf(i, "locate_csv")
           /\ xcom[i].csv_path = "None"
      /\ xcom'[i].report_message # xcom[i].report_message =>
           /\ AttemptOf(i, Report)
           /\ xcom[i].report_message = NoMessage
\* C19: within a run the key csv_path is written by locate_csv only and the
\* key report_message by report_top_volatility only, and a key that holds a
\* value is never written again, whatever attempts are retried.
C19_WriteOnce == [][C19_Step]_vars
C19_Witness ==
  \E i \in DagRuns :
    /\ xcom[i].csv_path = csv_path
    /\ xcom[i].report_message.kind = "Ativo"
    /\ try_number[i][Report] > 1
    /\ state[i][LogSummary] = "success"

C20_Step ==
  \A i \in DagRuns :
    /\ AttemptOf(i, LoadStaging) =>
         /\ state[i]["locate_csv"] = "success"
         /\ xcom[i].csv_path = csv_path
         /\ error'[i][LoadStaging] # "TypeError"
    /\ AttemptOf(i, LogSummary) =>
         /\ state[i][Report] = "success"
         /\ xcom[i].report_message # NoMessage
         /\ log'[i] = xcom[i].report_message
\* C20: when load_staging runs, csv_path has been pushed by locate_csv in
\* the same run, and when log_execution_summary runs, report_message has
\* been pushed by report_top_volatility in the same run and is exactly what
\* is logged: a consumer never reads a missing value or that of another run.
C20_ProducerBeforeConsumer == [][C20_Step]_vars
C20_Witness ==
  /\ run = 2
  /\ \A i \in DagRuns : dag_state[i] # "none"
  /\ \E i \in DagRuns :
       /\ try_number[i][LoadStaging] > 1
       /\ state[i][LogSummary] = "success"
       /\ log[i] = xcom[i].report_message
       /\ log[i].kind = "Ativo"
       /\ \E j \in DagRuns \ {i} :
            xcom[j].report_message # xcom[i].report_message

====
